---------------------------- MODULE Spec2Model ----------------------------
(***************************************************************************)
(* Truck Lookup (app.py): one Streamlit script run, from the sidebar data  *)
(* source through column mapping, search controls, filtering and export.   *)
(*                                                                         *)
(* Text is modelled as a sequence of one-character strings, so that        *)
(* lower(), strip(), casefold(), endswith(), "k in lc" and the regular     *)
(* expression search of Series.str.contains are computed, not assumed.     *)
(* An optional value (Python None or a value) is a sequence of length <= 1.*)
(***************************************************************************)
EXTENDS Integers, Sequences, FiniteSets, TLC

VARIABLES
    pc,             \* position of the script run
    astype_keeps_na,\* library behaviour of Series.astype(str) on a missing value
    uploaded,       \* st.file_uploader value: <<>> or <<file>>
    use_example,    \* st.toggle "Use example data"
    df_raw,         \* <<>> (None) or <<table>>
    df,             \* _df: the table after clean_columns, <<>> before
    guess,          \* role -> <<>> (None) or <<column name>>
    col,            \* role -> <<>> (None) or <<column name>>: the selectbox values
    overridden,     \* roles whose selectbox the user changed from its default
    query,          \* st.text_input value
    exact,          \* st.toggle "Exact match only"
    selected,       \* st.multiselect value, at most one entry
    active_query,   \* (selected[0] if selected else query).strip()
    res,            \* <<>> before the projection, <<result table>> after
    count,          \* len(res), -1 before it is computed
    exported,       \* the download payloads were built from res
    warning,        \* st.warning was shown (unsupported file type)
    info,           \* st.info was shown (no data available)
    error,          \* the exception that ended the run, "" if none
    kw,             \* the keywords argument of a direct call of suggest_column
    hit             \* the value that call returned

vars == <<pc, astype_keeps_na, uploaded, use_example, df_raw, df, guess, col,
          overridden, query, exact, selected, active_query, res, count,
          exported, warning, info, error, kw, hit>>

-----------------------------------------------------------------------------
(* Text helpers: Python str methods on ASCII text.                         *)

UpperAlpha == <<"A","B","C","D","E","F","G","H","I","J","K","L","M","N","O","P","Q","R","S","T","U","V","W","X","Y","Z">>
LowerAlpha == <<"a","b","c","d","e","f","g","h","i","j","k","l","m","n","o","p","q","r","s","t","u","v","w","x","y","z">>

\* one character of str.lower(): upper-case ASCII letters map to lower case
LowerChar(c) ==
    IF \E i \in 1..26 : UpperAlpha[i] = c
    THEN LowerAlpha[CHOOSE i \in 1..26 : UpperAlpha[i] = c]
    ELSE c

\* str.lower()
lower(s) == [i \in 1..Len(s) |-> LowerChar(s[i])]

\* str.casefold(): on ASCII text the same mapping as lower()
casefold(s) == [i \in 1..Len(s) |-> LowerChar(s[i])]

\* the characters str.strip() removes
Whitespace == {" ", "\t"}

RECURSIVE lstrip(_)
lstrip(s) == IF s # <<>> /\ Head(s) \in Whitespace THEN lstrip(Tail(s)) ELSE s

RECURSIVE rstrip(_)
rstrip(s) ==
    IF s # <<>> /\ s[Len(s)] \in Whitespace
    THEN rstrip(SubSeq(s, 1, Len(s) - 1))
    ELSE s

\* str.strip()
strip(s) == rstrip(lstrip(s))

\* Python "sub in s"
contains(sub, s) ==
    \E i \in 0..(Len(s) - Len(sub)) : SubSeq(s, i + 1, i + Len(sub)) = sub

\* str.endswith(suffix)
endswith(s, suf) ==
    Len(suf) <= Len(s) /\ SubSeq(s, Len(s) - Len(suf) + 1, Len(s)) = suf

\* the elements of a sequence
Range(s) == {s[i] : i \in 1..Len(s)}

\* list.index(x): position of the first occurrence
IndexOf(s, x) == CHOOSE i \in 1..Len(s) : s[i] = x /\ \A j \in 1..(i - 1) : s[j] # x

-----------------------------------------------------------------------------
(* Cells and tables (pandas DataFrame): ordered column names, ordered rows *)

StrCell(s) == [t |-> "str", s |-> s, n |-> 0]
IntCell(n) == [t |-> "int", s |-> <<>>, n |-> n]
NA == [t |-> "na", s |-> <<>>, n |-> 0]

Table(cols, rows) == [columns |-> cols, data |-> rows]

Digits == <<"0","1","2","3","4","5","6","7","8","9">>

\* str(n) for a natural number
RECURSIVE IntToStr(_)
IntToStr(n) ==
    IF n < 10 THEN <<Digits[n + 1]>>
    ELSE Append(IntToStr(n \div 10), Digits[(n % 10) + 1])

ExampleTrucks ==
    << <<"G","J","0","6","Z","Z","1","4","0","6">>, <<"G","J","0","6","B","X","1","7","0","6">>, <<"G","J","0","6","B","V","8","6","7","7">>,
       <<"G","J","0","6","B","V","8","9","3","8">>, <<"G","J","0","6","B","X","1","8","2","3">>, <<"G","J","0","6","B","T","9","0","3","4">> >>

ExampleChallans == << <<"1","0","1">>, <<"1","0","2">>, <<"1","0","3">>, <<"1","0","4">>, <<"1","0","5">>, <<"1","0","6">> >>

make_example_df ==
    Table(<< <<"S","R"," ","N","O",".">>, <<"D","a","t","e">>, <<"C","h","a","l","l","a","n"," ","N","o",".">>, <<"B","r","o","k","e","r"," ","N","a","m","e">>,
             <<"T","r","u","c","k"," ","N","o",".">>, <<"P","A","N"," ","N","a","m","e">>, <<"P","A","N"," ","N","o",".">> >>,
          [i \in 1..Len(ExampleTrucks) |->
              << IntCell(i), StrCell(<<"1","6","-","0","8","-","2","0","2","5">>), StrCell(ExampleChallans[i]),
                 StrCell(<<"S","R","P","L"," ","C","O","M","P","A","N","Y"," ","V","E","H","I","C","L","E">>), StrCell(ExampleTrucks[i]),
                 StrCell(<<"S","R","P","L">>), StrCell(<<"A","A","G","C","S","6","1","1","4","G">>) >>])

\* clean_columns: str(c).strip() on every column name, data untouched
clean_columns(t) ==
    Table([i \in 1..Len(t.columns) |-> strip(t.columns[i])], t.data)

\* load_file on a non-None upload: the parsed table, or None with a warning
CsvSuffixes == { <<".","c","s","v">>, <<".","t","x","t">> }
ExcelSuffixes == { <<".","x","l","s","x">>, <<".","x","l","s","m">>, <<".","x","l","s">> }

Supported(name) ==
    \E suf \in CsvSuffixes \cup ExcelSuffixes : endswith(lower(name), suf)

\* load_file(uploaded_file) for an upload that is not None: <<table>> when the
\* extension is recognised (the reader's result), <<>> (None) otherwise
load_file(f) == IF Supported(f.name) THEN f.body ELSE <<>>

-----------------------------------------------------------------------------
(* suggest_column and the default keyword lists                            *)

Roles == {"truck", "broker", "panname", "panno"}

Keywords(r) ==
    CASE r = "truck"   -> << <<"t","r","u","c","k">>, <<"v","e","h","i","c","l","e">>, <<"v","e","h">> >>
      [] r = "broker"  -> << <<"b","r","o","k","e","r">>, <<"p","a","r","t","y">>, <<"v","e","n","d","o","r">>, <<"c","o","m","p","a","n","y">> >>
      [] r = "panname" -> << <<"p","a","n"," ","n","a","m","e">>, <<"p","a","n","n","a","m","e">>, <<"n","a","m","e">> >>
      [] r = "panno"   -> << <<"p","a","n"," ","n","o">>, <<"p","a","n">>, <<"p","a","n","n","o">>, <<"p","a","n"," ","n","u","m","b","e","r">> >>

\* the same test on the name as written, not lower-cased
AnyKeywordNoLower(c, keywords) ==
    \E n \in 1..Len(keywords) : contains(keywords[n], c)

\* any(k in lc for k in keywords)
AnyKeyword(c, keywords) ==
    \E n \in 1..Len(keywords) : contains(keywords[n], lower(c))

\* the loop of suggest_column over cols[i..]: first column with a keyword
RECURSIVE ScanColumns(_, _, _)
ScanColumns(cols, i, keywords) ==
    IF i > Len(cols) THEN <<>>
    ELSE IF AnyKeyword(cols[i], keywords) THEN <<cols[i]>>
    ELSE ScanColumns(cols, i + 1, keywords)

suggest_column(t, keywords) == ScanColumns(t.columns, 1, keywords)

\* selectbox default: options[index], index = position of the guess if the
\* guess is a column, else 0; a selectbox without options yields None
SelectDefault(options, g) ==
    IF options = <<>> THEN <<>>
    ELSE IF g # <<>> /\ g[1] \in Range(options) THEN <<options[IndexOf(options, g[1])]>>
    ELSE <<options[1]>>

-----------------------------------------------------------------------------
(* Series.astype(str), the masks and the regular expression search         *)

\* str(value) of a cell that is not missing
CellText(c) == IF c.t = "int" THEN IntToStr(c.n) ELSE c.s

\* one element of Series.astype(str): <<text>>, or <<>> for a missing value
\* that the library keeps missing; otherwise a missing value becomes "nan"
astype_str(c, keeps_na) ==
    IF c.t = "na" THEN (IF keeps_na THEN <<>> ELSE << <<"n","a","n">> >>)
    ELSE <<CellText(c)>>

\* The patterns that occur are made of letters, digits, blanks, "-", and
\* the operators ".", "*" and "(" (never ")").
\* re.compile(pat) raises: an unterminated group, a repeat with nothing
\* before it, or a repeat of a repeat
re_error(pat) ==
    \/ \E i \in 1..Len(pat) : pat[i] = "("
    \/ (pat # <<>> /\ pat[1] = "*")
    \/ \E i \in 1..(Len(pat) - 1) : pat[i] = "*" /\ pat[i + 1] = "*"

\* one pattern atom against one character, re.IGNORECASE
AtomMatch(a, ch) == IF a = "." THEN ch # "\n" ELSE LowerChar(a) = LowerChar(ch)

\* the pattern from position i matches a prefix of s[j..]
RECURSIVE MatchHere(_, _, _, _)
MatchHere(pat, i, s, j) ==
    IF i > Len(pat) THEN TRUE
    ELSE IF i < Len(pat) /\ pat[i + 1] = "*"
    THEN \/ MatchHere(pat, i + 2, s, j)
         \/ (j <= Len(s) /\ AtomMatch(pat[i], s[j]) /\ MatchHere(pat, i, s, j + 1))
    ELSE j <= Len(s) /\ AtomMatch(pat[i], s[j]) /\ MatchHere(pat, i + 1, s, j + 1)

\* re.compile(pat, re.IGNORECASE).search(s) is not None
re_search(pat, s) == \E j \in 1..(Len(s) + 1) : MatchHere(pat, 1, s, j)

\* res["Truck No."].astype(str).str.casefold() == active_query.casefold()
exact_mask(c, q, keeps_na) ==
    LET e == astype_str(c, keeps_na)
    IN  e # <<>> /\ casefold(e[1]) = casefold(q)

\* res["Truck No."].astype(str).str.contains(active_query, case=False, na=False)
contains_mask(c, q, keeps_na) ==
    LET e == astype_str(c, keeps_na)
    IN  e # <<>> /\ re_search(q, e[1])

\* the same without the strip()
ActiveQueryNoStrip(sel, q) == IF sel # <<>> THEN sel[1] ELSE q

\* (selected[0] if selected else query).strip()
ActiveQuery(sel, q) == strip(IF sel # <<>> THEN sel[1] ELSE q)

OutputLabels == << <<"T","r","u","c","k"," ","N","o",".">>, <<"B","r","o","k","e","r"," ","N","a","m","e">>, <<"P","A","N"," ","N","a","m","e">>, <<"P","A","N"," ","N","o",".">> >>

\* _df[[truck_col, broker_col, panname_col, panno_col]] with the fixed labels
Project(t, c) ==
    LET ix(r) == IndexOf(t.columns, c[r][1])
    IN  Table(OutputLabels,
              [i \in 1..Len(t.data) |->
                  << t.data[i][ix("truck")], t.data[i][ix("broker")],
                     t.data[i][ix("panname")], t.data[i][ix("panno")] >>])

\* the filter raises instead of producing a mask
FilterRaises(q, ex) == q # <<>> /\ ~ex /\ re_error(q)

\* res.loc[mask] when active_query is not empty, res unchanged otherwise
FilterRows(rows, q, ex, keeps_na) ==
    IF q = <<>> THEN rows
    ELSE IF ex THEN SelectSeq(rows, LAMBDA r : exact_mask(r[1], q, keeps_na))
    ELSE SelectSeq(rows, LAMBDA r : contains_mask(r[1], q, keeps_na))

\* _df[truck_col].dropna().astype(str).unique(): the multiselect options
unique_trucks(t, tc) ==
    LET k == IndexOf(t.columns, tc)
    IN  {CellText(t.data[i][k]) : i \in {n \in 1..Len(t.data) : t.data[n][k].t # "na"}}

-----------------------------------------------------------------------------
(* Bounded inputs                                                          *)

MaxRows == 2        \* uploaded identifier lists have at most this many rows
MaxQueryLen == 2    \* typed queries are enumerated up to this length

\* all sequences over S of length <= n
RECURSIVE SeqsUpTo(_, _)
SeqsUpTo(S, n) ==
    IF n = 0 THEN {<<>>}
    ELSE LET shorter == SeqsUpTo(S, n - 1)
         IN  shorter \cup {Append(s, x) : s \in shorter, x \in S}

NoDuplicates(s) == \A i, j \in 1..Len(s) : i # j => s[i] # s[j]

\* header rows as they stand in the uploaded file (before clean_columns)
ColumnLists ==
    { << <<"D","a","t","e">>, <<"Q","t","y">> >>,
      << <<"N","a","m","e">>, <<"V","E","H">> >>,
      << <<"P","A","N"," ","N","a","m","e">>, <<"P","A","N"," ","N","o",".">> >>,
      << <<"P","A","N"," ","N","o",".">>, <<"P","A","N"," ","N","a","m","e">>, <<" ","T","r","u","c","k"," ","N","o","."," ">> >>,
      << <<"C","o","m","p","a","n","y"," ","P","A","N">>, <<"V","e","h","i","c","l","e">>, <<"P","A","N","N","A","M","E">> >>,
      << <<"T","r","u","c","k"," ","N","o",".">>, <<"P","A","N"," ","N","o",".">>, <<"B","r","o","k","e","r"," ","N","a","m","e">>, <<"P","A","N"," ","N","a","m","e">> >> }

\* identifier cells an uploaded file may hold, in file order
IdMaster ==
    << StrCell(<<"a","b">>), StrCell(<<"A","B">>), StrCell(<<"a",".","b">>), NA, StrCell(<<"n","a","n">>),
       StrCell(<<"b","a","*","b">>), StrCell(<<"(","a">>), IntCell(12), StrCell(<<"a"," ","b">>) >>

\* a table with the identifiers in column k and the row number elsewhere
MakeTable(cols, k, ids) ==
    Table(cols,
          [i \in 1..Len(ids) |->
              [j \in 1..Len(cols) |-> IF j = k THEN ids[i] ELSE IntCell(i)]])

Min(a, b) == IF a < b THEN a ELSE b

\* the runs of at most MaxRows consecutive identifiers
IdLists ==
    UNION {{SubSeq(IdMaster, i, i + n - 1) :
               n \in 1..Min(MaxRows, Len(IdMaster) - i + 1)} :
           i \in 1..Len(IdMaster)}

UploadTables ==
    {MakeTable(cs, 1, << StrCell(<<"G","J","0","6","B","X","1","7","0","6">>) >>) : cs \in ColumnLists}
    \cup {MakeTable(<< <<"V","e","h","i","c","l","e">>, <<"P","a","r","t","y">> >>, 1, ids) : ids \in IdLists}

File(name, body) == [name |-> name, body |-> body]

\* uploads: every table as a CSV, and single files of the other kinds (a
\* workbook whose sheet is empty reads as a table without columns); body
\* <<>> is content the reader cannot parse
Files ==
    {File(<<"d","a","t","a",".","c","s","v">>, <<t>>) : t \in UploadTables}
    \cup { File(<<"T","r","u","c","k","s",".","X","L","S","X">>, <<Table(<<>>, <<>>)>>),
           File(<<"l","i","s","t",".","T","X","T">>, <<>>),
           File(<<"s","c","a","n",".","p","d","f">>, <<make_example_df>>),
           File(<<"c","s","v">>, <<make_example_df>>),
           File(<<"d","a","t","a",".","c","s","v",".","b","a","k">>, <<make_example_df>>) }

\* the sidebar: no upload with the toggle either way; an upload with the
\* toggle at its default (off), or switched on for the single files
SidebarInputs ==
    {<< <<>>, t >> : t \in BOOLEAN}
    \cup {<< <<f>>, FALSE >> : f \in Files}
    \cup {<< <<f>>, TRUE >> : f \in {g \in Files : g.name # <<"d","a","t","a",".","c","s","v">>}}

QueryAlphabet == {"a", ".", " "}

Queries ==
    SeqsUpTo(QueryAlphabet, MaxQueryLen)
    \cup { <<"\t"," ">>, <<"n","a","n">>, <<"n","a">>, <<"N","a","N">>, <<"(">>, <<"*">>, <<"a","*">>, <<"b","*","*">>,
           <<"b","a","*","b">>, <<"a",".","b">>, <<" ","A","B","\t">>, <<"B">>, <<"1">>, <<"1","2">>,
           <<"G","J","0","6","B">>, <<"g","j","0","6","b","x","1","7","0","6">>, <<"G","J","0","6","B","X","1","7","0","6">> }

-----------------------------------------------------------------------------
(* The script run                                                          *)

NoGuess == [r \in Roles |-> <<>>]

Init ==
    /\ pc = "sidebar"
    /\ astype_keeps_na \in BOOLEAN
    /\ uploaded = <<>>
    /\ use_example = TRUE
    /\ df_raw = <<>>
    /\ df = <<>>
    /\ guess = NoGuess
    /\ col = NoGuess
    /\ overridden = {}
    /\ query = <<>>
    /\ exact = FALSE
    /\ selected = <<>>
    /\ active_query = <<>>
    /\ res = <<>>
    /\ count = -1
    /\ exported = FALSE
    /\ warning = FALSE
    /\ info = FALSE
    /\ error = ""
    /\ kw = <<>>
    /\ hit = <<>>

\* lines 71-74: the upload widget and the example toggle
Sidebar ==
    /\ pc = "sidebar"
    /\ \E in \in SidebarInputs :
          /\ uploaded' = in[1]
          /\ use_example' = in[2]
    /\ pc' = "source"
    /\ UNCHANGED <<kw, hit, astype_keeps_na, df_raw, df, guess, col, overridden, query,
                   exact, selected, active_query, res, count, exported,
                   warning, info, error>>

\* the same, falling back to the example when load_file returns None
DataFrameRawFallback(u, ex) ==
    IF u # <<>> /\ load_file(u[1]) # <<>> THEN load_file(u[1])
    ELSE IF ex THEN <<make_example_df>> ELSE <<>>

\* what lines 76-79 assign to df_raw
DataFrameRaw(u, ex) ==
    IF u # <<>> THEN load_file(u[1])
    ELSE IF ex THEN <<make_example_df>> ELSE <<>>

\* pd.read_csv / pd.read_excel raise on content they cannot parse
ReadRaises(u) == u # <<>> /\ Supported(u[1].name) /\ u[1].body = <<>>

\* lines 76-83: pick the data source; st.info and st.stop when there is none
DataSource ==
    /\ pc = "source"
    /\ IF ReadRaises(uploaded)
       THEN /\ pc' = "crashed"
            /\ error' = "ParserError"
            /\ UNCHANGED <<df_raw, warning, info>>
       ELSE /\ df_raw' = DataFrameRaw(uploaded, use_example)
            /\ warning' = (uploaded # <<>> /\ ~Supported(uploaded[1].name))
            /\ info' = (df_raw' = <<>>)
            /\ pc' = IF df_raw' = <<>> THEN "stopped" ELSE "mapping"
            /\ error' = error
    /\ UNCHANGED <<kw, hit, astype_keeps_na, uploaded, use_example, df, guess, col,
                   overridden, query, exact, selected, active_query, res,
                   count, exported>>

\* lines 94-97: the four guesses on the cleaned table
Guesses(t) == [r \in Roles |-> suggest_column(t, Keywords(r))]

\* lines 99-106: the selectbox values; the user leaves the defaults or
\* re-maps one role to another column
Defaults(t, g) == [r \in Roles |-> SelectDefault(t.columns, g[r])]

Mappings(t, g) ==
    {Defaults(t, g)}
    \cup {[Defaults(t, g) EXCEPT ![r] = <<c>>] : r \in Roles, c \in Range(t.columns)}

\* lines 86-106: clean_columns, the guesses and the four selectboxes
ColumnMapping ==
    /\ pc = "mapping"
    /\ df' = <<clean_columns(df_raw[1])>>
    /\ guess' = Guesses(df'[1])
    /\ \E chosen \in Mappings(df'[1], guess') :
          /\ col' = chosen
          /\ overridden' = {r \in Roles : chosen[r] # Defaults(df'[1], guess')[r]}
    /\ pc' = "search"
    /\ UNCHANGED <<kw, hit, astype_keeps_na, uploaded, use_example, df_raw, query,
                   exact, selected, active_query, res, count, exported,
                   warning, info, error>>

\* lines 111-137: the search controls, the projection and the filter
Search ==
    /\ pc = "search"
    /\ IF col["truck"] = <<>>
       THEN \* line 119: _df[None] on a table without columns
            /\ pc' = "crashed"
            /\ error' = "KeyError"
            /\ UNCHANGED <<query, exact, selected, active_query, res, count>>
       ELSE \E q \in Queries, ex \in BOOLEAN,
               sel \in {<<>>} \cup {<<u>> : u \in unique_trucks(df[1], col["truck"][1])} :
              /\ query' = q
              /\ exact' = ex
              /\ selected' = sel
              /\ active_query' = ActiveQuery(sel, q)
              /\ IF FilterRaises(active_query', ex)
                 THEN /\ pc' = "crashed"
                      /\ error' = "re.error"
                      /\ UNCHANGED <<res, count>>
                 ELSE /\ res' = << Table(OutputLabels,
                                         FilterRows(Project(df[1], col).data,
                                                    active_query', ex,
                                                    astype_keeps_na)) >>
                      /\ count' = Len(res'[1].data)
                      /\ pc' = "download"
                      /\ error' = error
    /\ UNCHANGED <<kw, hit, astype_keeps_na, uploaded, use_example, df_raw, df, guess,
                   col, overridden, exported, warning, info>>

\* lines 146-152: the CSV and Excel payloads are built from res
Download ==
    /\ pc = "download"
    /\ exported' = TRUE
    /\ pc' = "done"
    /\ UNCHANGED <<kw, hit, astype_keeps_na, uploaded, use_example, df_raw, df, guess,
                   col, overridden, query, exact, selected, active_query, res,
                   count, warning, info, error>>

\* a widget interaction reruns the script from the top
Rerun ==
    /\ pc \in {"done", "stopped", "crashed"}
    /\ pc' = "sidebar"
    /\ uploaded' = <<>>
    /\ use_example' = TRUE
    /\ df_raw' = <<>>
    /\ df' = <<>>
    /\ guess' = NoGuess
    /\ col' = NoGuess
    /\ overridden' = {}
    /\ query' = <<>>
    /\ exact' = FALSE
    /\ selected' = <<>>
    /\ active_query' = <<>>
    /\ res' = <<>>
    /\ count' = -1
    /\ exported' = FALSE
    /\ warning' = FALSE
    /\ info' = FALSE
    /\ error' = ""
    /\ UNCHANGED <<kw, hit, astype_keeps_na>>

Next ==
    Sidebar \/ DataSource \/ ColumnMapping \/ Search \/ Download \/ Rerun

Spec == Init /\ [][Next]_vars

-----------------------------------------------------------------------------
(* suggest_column called directly, on any header row and keyword list      *)

MaxCols == 3        \* header rows are enumerated up to this many columns
MaxKeywords == 2    \* keyword lists are enumerated up to this length

\* cleaned column names
NamePool ==
    { <<"T","r","u","c","k"," ","N","o",".">>, <<"B","r","o","k","e","r"," ","N","a","m","e">>, <<"P","A","N"," ","N","a","m","e">>, <<"P","A","N"," ","N","o",".">>, <<"D","a","t","e">> }

HeaderRows == {cs \in SeqsUpTo(NamePool, MaxCols) : NoDuplicates(cs)}

KeywordPool == { <<"p","a","n">>, <<"n","a","m","e">>, <<"P","A","N">>, <<"v","e","h">> }

KeywordLists ==
    SeqsUpTo(KeywordPool, MaxKeywords) \cup {Keywords(r) : r \in Roles}

InitGuess ==
    /\ pc = "guess_input"
    /\ astype_keeps_na \in BOOLEAN
    /\ uploaded = <<>>
    /\ use_example = TRUE
    /\ df_raw = <<>>
    /\ df = <<>>
    /\ guess = NoGuess
    /\ col = NoGuess
    /\ overridden = {}
    /\ query = <<>>
    /\ exact = FALSE
    /\ selected = <<>>
    /\ active_query = <<>>
    /\ res = <<>>
    /\ count = -1
    /\ exported = FALSE
    /\ warning = FALSE
    /\ info = FALSE
    /\ error = ""
    /\ kw = <<>>
    /\ hit = <<>>

run_vars ==
    <<astype_keeps_na, uploaded, use_example, df_raw, guess, overridden, query,
      exact, selected, active_query, res, count, exported, warning, info, error>>

\* the arguments of the call: a table with the header row, a keyword list
GuessInput ==
    /\ pc = "guess_input"
    /\ \E cs \in HeaderRows, k \in KeywordLists :
          /\ df' = <<Table(cs, <<>>)>>
          /\ kw' = k
    /\ hit' = <<>>
    /\ col' = NoGuess
    /\ pc' = "guess_call"
    /\ UNCHANGED run_vars

\* lines 40-47: suggest_column(df, keywords)
GuessCall ==
    /\ pc = "guess_call"
    /\ hit' = suggest_column(df[1], kw)
    /\ pc' = "guess_select"
    /\ UNCHANGED <<df, kw, col>>
    /\ UNCHANGED run_vars

\* lines 99-106: the caller's selectbox default for the returned guess
GuessSelect ==
    /\ pc = "guess_select"
    /\ col' = [r \in Roles |-> SelectDefault(df[1].columns, hit)]
    /\ pc' = "guess_done"
    /\ UNCHANGED <<df, kw, hit>>
    /\ UNCHANGED run_vars

\* the next call starts from fresh arguments
GuessAgain ==
    /\ pc = "guess_done"
    /\ pc' = "guess_input"
    /\ df' = <<>>
    /\ kw' = <<>>
    /\ hit' = <<>>
    /\ col' = NoGuess
    /\ UNCHANGED run_vars

NextGuess == GuessInput \/ GuessCall \/ GuessSelect \/ GuessAgain

SpecGuess == InitGuess /\ [][NextGuess]_vars

-----------------------------------------------------------------------------
(* Vocabulary of the properties                                            *)

\* the run got past the filter: a result table exists
Filtered == pc \in {"download", "done"}

\* the run is at or past the column mapping
Mapped == pc \in {"search", "download", "done"}

\* position of a role's selected column in the cleaned table
ColumnIndex(r) == IndexOf(df[1].columns, col[r][1])

\* the four cells of input row i under the selected mapping
ProjectedRow(i) ==
    << df[1].data[i][ColumnIndex("truck")], df[1].data[i][ColumnIndex("broker")],
       df[1].data[i][ColumnIndex("panname")], df[1].data[i][ColumnIndex("panno")] >>

InputRows == [i \in 1..Len(df[1].data) |-> ProjectedRow(i)]

\* the identifier string of a cell as the specification defines it:
\* a missing value is the empty string
IdentifierString(c) == IF c.t = "na" THEN <<>> ELSE CellText(c)

AllWhitespace(s) == \A i \in 1..Len(s) : s[i] \in Whitespace

\* q occurs in s as a literal contiguous run of characters, ignoring case
LiteralOccurs(q, s) ==
    \E k \in 0..(Len(s) - Len(q)) :
        \A i \in 1..Len(q) : LowerChar(s[k + i]) = LowerChar(q[i])

\* the text after the last "." of a file name, lower-cased; <<>> without a "."
RECURSIVE Extension(_)
Extension(name) ==
    IF name = <<>> THEN <<>>
    ELSE IF \E i \in 2..Len(name) : name[i] = "." THEN Extension(Tail(name))
    ELSE IF Head(name) = "." THEN <<lower(Tail(name))>>
    ELSE <<>>

RecognisedExtension(name) ==
    Extension(name) \in { << <<"c","s","v">> >>, << <<"t","x","t">> >>, << <<"x","l","s","x">> >>,
                          << <<"x","l","s","m">> >>, << <<"x","l","s">> >> }

\* nothing downstream of the data source has been computed
NothingComputed ==
    /\ df_raw = <<>> /\ df = <<>> /\ guess = NoGuess /\ col = NoGuess
    /\ res = <<>> /\ count = -1 /\ ~exported

\* column i of the table contains one of the keywords of the direct call
KeywordHit(i) ==
    \E n \in 1..Len(kw) :
        \E k \in 0..(Len(df[1].columns[i]) - Len(kw[n])) :
            \A p \in 1..Len(kw[n]) : LowerChar(df[1].columns[i][k + p]) = kw[n][p]

-----------------------------------------------------------------------------
(* C1: whenever the table has both a "PAN Name" and a "PAN No." column,    *)
(* the guesses give "PAN Name" to the EntityName role and "PAN No." to the *)
(* EntityId role.                                                          *)
C1_PanGuessNotSwapped ==
    (Mapped /\ <<"P","A","N"," ","N","a","m","e">> \in Range(df[1].columns)
            /\ <<"P","A","N"," ","N","o",".">> \in Range(df[1].columns))
    => (guess["panname"] = << <<"P","A","N"," ","N","a","m","e">> >> /\ guess["panno"] = << <<"P","A","N"," ","N","o",".">> >>)

(* C2: an empty or whitespace-only typed query with no list selection      *)
(* returns every row of the table, in the original order, exact or not.    *)
C2_EmptyQueryReturnsAll ==
    (Filtered /\ selected = <<>> /\ AllWhitespace(query))
    => /\ Len(res[1].data) = Len(df[1].data)
       /\ count = Len(df[1].data)
       /\ \A i \in 1..Len(df[1].data) : res[1].data[i] = ProjectedRow(i)

C2_Witness ==
    /\ pc = "done" /\ selected = <<>> /\ query = <<"\t"," ">> /\ exact
    /\ Len(df[1].data) = 2 /\ count = 2

(* C3: a row whose identifier is missing is never in the result of a       *)
(* non-empty query, in either mode.                                        *)
C3_MissingNeverMatches ==
    (Filtered /\ active_query # <<>>)
    => \A i \in 1..Len(res[1].data) : res[1].data[i][1].t # "na"

(* C4: in partial mode with a non-empty query the result is exactly the   *)
(* rows whose identifier string contains the query as a literal substring, *)
(* ignoring case, in the original order and without deduplication.         *)
C4_PartialIsLiteralSubstring ==
    (Filtered /\ ~exact /\ active_query # <<>>)
    => res[1].data =
         SelectSeq(InputRows,
                   LAMBDA r : LiteralOccurs(active_query, IdentifierString(r[1])))

(* C5: filtering never raises, and the result has between 0 and the input  *)
(* row count rows.                                                         *)
C5_FilterTotal ==
    /\ error # "re.error"
    /\ Filtered => (0 <= count /\ count <= Len(df[1].data))

(* C6: for a non-empty query that the partial mode accepts, every row the  *)
(* exact mode returns is also returned by the partial mode.                *)
C6_PartialSupersetOfExact ==
    (Filtered /\ exact /\ active_query # <<>> /\ ~FilterRaises(active_query, FALSE))
    => Range(res[1].data)
         \subseteq Range(FilterRows(InputRows, active_query, FALSE, astype_keeps_na))

(* C7: in exact mode with a non-empty query the result is exactly the rows *)
(* whose identifier string, case-folded, equals the trimmed query,         *)
(* case-folded.                                                            *)
C7_ExactIsFoldedEquality ==
    (Filtered /\ exact /\ active_query # <<>>)
    => res[1].data =
         SelectSeq(InputRows,
                   LAMBDA r : casefold(IdentifierString(r[1]))
                                = casefold(strip(IF selected # <<>>
                                                 THEN selected[1] ELSE query)))

(* C8: a result exists only if every role's column is a column of the      *)
(* table that the guess resolved or the user chose; a role without a       *)
(* resolved column is never replaced by column 0.                          *)
C8_NoSilentDefault ==
    Filtered
    => \A r \in Roles :
          /\ col[r] # <<>>
          /\ col[r][1] \in Range(df[1].columns)
          /\ (r \in overridden \/ col[r] = guess[r])

(* C10: resolution, projection and filtering happen only on a produced     *)
(* table; an upload with an unrecognised extension (whatever the toggle)   *)
(* or no upload with the toggle off warns or informs, halts, and yields    *)
(* no result and no export.                                                *)
C10_NoTableNoLookup ==
    /\ (Mapped \/ pc = "mapping" \/ ~NothingComputed) => df_raw # <<>>
    /\ (pc \notin {"sidebar", "source"} /\ uploaded # <<>>
            /\ ~RecognisedExtension(uploaded[1].name))
       => (pc = "stopped" /\ warning /\ info /\ NothingComputed)
    /\ (pc \notin {"sidebar", "source"} /\ uploaded = <<>> /\ ~use_example)
       => (pc = "stopped" /\ info /\ NothingComputed)

C10_Witness ==
    /\ pc = "stopped" /\ uploaded # <<>> /\ use_example
    /\ uploaded[1].name = <<"s","c","a","n",".","p","d","f">> /\ warning /\ info

(* C9: suggest_column returns the first column, in column order, whose     *)
(* lower-cased name contains one of the keywords, and None when no column  *)
(* does; the caller, not suggest_column, falls back to the first column;   *)
(* a returned name is one of the table's columns.                          *)
C9_FirstMatchOrNone ==
    pc \in {"guess_select", "guess_done"}
    => LET n == Len(df[1].columns)
       IN  /\ (\A i \in 1..n : ~KeywordHit(i)) => hit = <<>>
           /\ \A i \in 1..n :
                 (KeywordHit(i) /\ \A j \in 1..(i - 1) : ~KeywordHit(j))
                 => hit = <<df[1].columns[i]>>
           /\ hit # <<>> => hit[1] \in Range(df[1].columns)
           /\ (pc = "guess_done" /\ n > 0 /\ \A i \in 1..n : ~KeywordHit(i))
              => (hit = <<>> /\ \A r \in Roles : col[r] = <<df[1].columns[1]>>)

C9_Witness ==
    /\ pc = "guess_done"
    /\ df[1].columns = << <<"D","a","t","e">>, <<"P","A","N"," ","N","a","m","e">>, <<"P","A","N"," ","N","o",".">> >>
    /\ kw = << <<"v","e","h">>, <<"p","a","n">> >>
    /\ hit = << <<"P","A","N"," ","N","a","m","e">> >>

=============================================================================
